---- MODULE Spec2Model ----
(***************************************************************************)
(* Model of streamlit_app.py: the flat-file persistence adapter            *)
(* (fetch_table / insert_row / upsert_row / delete_row), the domain        *)
(* helpers (generate_slots, overlaps) and the page handlers that write     *)
(* (page_pacientes, page_config, page_agenda, page_citas).                 *)
(*                                                                         *)
(* Python strings are sequences of character codes, so that str            *)
(* comparison is the lexicographic one Python performs.  Times of day are  *)
(* minutes since midnight until strftime turns them into strings.          *)
(***************************************************************************)
EXTENDS Integers, Sequences, FiniteSets, TLC

VARIABLES
    patients,       \* data/patients.csv as fetch_table reads it
    professionals,  \* data/professionals.csv
    services,       \* data/services.csv
    appointments,   \* data/appointments.csv
    now,            \* dt.datetime.now().timestamp()*1000, truncated to int
    msg,            \* the st.error / st.success message of the last submission
    sess,           \* per-session script-run state (concurrent sessions)
    tbl,            \* a flat-file table driven directly through the adapter
    call,           \* the last adapter call on tbl: its data and whether mask.any()
    args,           \* arguments of a domain helper call
    ret             \* result of that call (<<>> before the call returns)

vars == <<patients, professionals, services, appointments, now, msg,
          sess, tbl, call, args, ret>>

-----------------------------------------------------------------------------
(* Bounds of the model *)

MaxClock == 2        \* the clock runs over 1..MaxClock milliseconds
MaxOvK == 6          \* overlaps is tried on the times k*OvStep, k in 0..MaxOvK
OvStep == 135        \* minutes between the times overlaps is tried on
MaxSlotK == 4        \* workday starts/ends tried: DayBase + k*15, k in 0..MaxSlotK

-----------------------------------------------------------------------------
(* Python str values *)

Min2(a, b) == IF a <= b THEN a ELSE b

\* one decimal digit as a character
Digit(d) == 48 + d

\* str(n) for a natural number n
RECURSIVE Str(_)
Str(n) == IF n < 10 THEN <<Digit(n)>> ELSE Str(n \div 10) \o <<Digit(n % 10)>>

\* int(s) for a string of decimal digits (what read_csv makes of an id cell)
RECURSIVE ParseInt(_)
ParseInt(s) ==
    IF Len(s) = 0 THEN 0
    ELSE 10 * ParseInt(SubSeq(s, 1, Len(s) - 1)) + (s[Len(s)] - 48)

\* s.strip(): leading and trailing blanks removed
RECURSIVE Strip(_)
Strip(s) ==
    IF Len(s) = 0 THEN s
    ELSE IF s[1] = 32 THEN Strip(Tail(s))
    ELSE IF s[Len(s)] = 32 THEN Strip(SubSeq(s, 1, Len(s) - 1))
    ELSE s

\* Python's a < b on str: lexicographic on the character codes, decided at
\* the first position i where the two differ or one ends
RECURSIVE StrLTFrom(_, _, _)
StrLTFrom(a, b, i) ==
    IF i > Len(b) THEN FALSE
    ELSE IF i > Len(a) THEN TRUE
    ELSE IF a[i] # b[i] THEN a[i] < b[i]
    ELSE StrLTFrom(a, b, i + 1)

StrLT(a, b) == StrLTFrom(a, b, 1)

\* Python's a <= b on str
StrLE(a, b) == a = b \/ StrLT(a, b)

-----------------------------------------------------------------------------
(* Times of day *)

\* two-digit, zero-padded field of strftime
TwoDigits(n) == <<Digit(n \div 10), Digit(n % 10)>>

\* (datetime at minute m, counted from midnight of the chosen day).strftime("%H:%M");
\* the date part of a datetime past midnight is dropped by the format
FmtHM(m) == TwoDigits((m \div 60) % 24) \o <<58>> \o TwoDigits(m % 60)

\* .strftime("%H:%M:%S") of a datetime whose seconds are zero
FmtHMS(m) == FmtHM(m) \o <<58, 48, 48>>

\* hh, mm = map(int, slot.split(":")); the minute of day of dt.time(hh, mm)
ParseHM(s) == ParseInt(SubSeq(s, 1, 2)) * 60 + ParseInt(SubSeq(s, 4, 5))

\* the minute of day a "%H:%M" or "%H:%M:%S" string denotes
TimeOf(s) == ParseHM(s)

-----------------------------------------------------------------------------
(* Domain helpers *)

\* widget "Tamano de bloque (min)": min_value, max_value and step
BlockMin == 15
BlockMax == 120
BlockStep == 15

\* widget defaults "Inicio dia" 09:00 and "Fin dia" 18:30, in minutes
DefaultStart == 540
DefaultEnd == 1110

Blocks == {b \in BlockMin..BlockMax : (b - BlockMin) % BlockStep = 0}

\* the loop with "cur < end_dt": the end of the day is left out
RECURSIVE SlotLoopExclusive(_, _, _, _)
SlotLoopExclusive(cur, end_dt, block_minutes, slots) ==
    IF cur < end_dt
    THEN SlotLoopExclusive(cur + block_minutes, end_dt, block_minutes,
                           Append(slots, FmtHM(cur)))
    ELSE slots

\* generate_slots: the while loop, cur counted in minutes of the day
RECURSIVE SlotLoop(_, _, _, _)
SlotLoop(cur, end_dt, block_minutes, slots) ==
    IF cur <= end_dt
    THEN SlotLoop(cur + block_minutes, end_dt, block_minutes, Append(slots, FmtHM(cur)))
    ELSE slots

generate_slots(block_minutes, start, end) ==
    SlotLoop(ParseHM(start), ParseHM(end), block_minutes, <<>>)

\* overlap on closed intervals: touching intervals count as overlapping
overlapsClosed(a_start, a_end, b_start, b_end) ==
    ~(StrLT(a_end, b_start) \/ StrLT(b_end, a_start))

\* only a start inside the other interval counts: b_start <= a_start < b_end
overlapsStartInside(a_start, a_end, b_start, b_end) ==
    StrLE(b_start, a_start) /\ StrLT(a_start, b_end)

overlaps(a_start, a_end, b_start, b_end) ==
    ~(StrLE(a_end, b_start) \/ StrLE(b_end, a_start))

-----------------------------------------------------------------------------
(* Persistence adapter, flat-file backend (get_engine() is None).          *)
(* A table is the sequence of rows read_csv returns; a row is a function   *)
(* from column names to cells.  The id cells of a file are integers once   *)
(* read back, while a key in a data dict is a str.                         *)

pk == "id"

\* the cell pandas leaves where a row supplies no value for a column
NaN == -1

\* str(int(dt.datetime.now().timestamp()*1000))
GenKey(t) == Str(t)

\* the cell of column c after to_csv/read_csv: a key of digits is read as int
Cell(c, d) == IF c = pk THEN ParseInt(d[c]) ELSE d[c]

\* pd.DataFrame([data]) aligned to the table's columns by pd.concat
ToRow(cols, d) ==
    [c \in cols \cup DOMAIN d |-> IF c \in DOMAIN d THEN Cell(c, d) ELSE NaN]

\* df[pk].astype(str) == str(key), for one row
KeyMatches(row, key) == Str(row[pk]) = key

\* insert_row: "if 'id' not in data or not data.get('id')"
InsertNeedsKey(data) == pk \notin DOMAIN data \/ data[pk] = <<>>

\* upsert_row: "if pk not in data or not str(data.get(pk)).strip()"
UpsertNeedsKey(data) == pk \notin DOMAIN data \/ Strip(data[pk]) = <<>>

insert_row(df, cols, data, t) ==
    LET d == IF InsertNeedsKey(data) THEN (pk :> GenKey(t)) @@ data ELSE data
    IN  Append(df, ToRow(cols, d))

\* the masked row replaced whole by the new data: columns not supplied are lost
OverwriteWholeRow(row, d) ==
    [c \in DOMAIN row |-> IF c \in DOMAIN d THEN Cell(c, d) ELSE NaN]

\* for k, v in data.items(): df.loc[mask, k] = v   (one masked row)
Overwrite(row, d) ==
    [c \in DOMAIN row |-> IF c \in DOMAIN d THEN Cell(c, d) ELSE row[c]]

upsert_row(df, cols, data, t) ==
    LET d == IF UpsertNeedsKey(data) THEN (pk :> GenKey(t)) @@ data ELSE data
    IN  IF df = <<>>
        THEN <<ToRow(cols, d)>>
        ELSE IF \E i \in 1..Len(df) : KeyMatches(df[i], d[pk])
             THEN [i \in 1..Len(df) |->
                     IF KeyMatches(df[i], d[pk]) THEN Overwrite(df[i], d) ELSE df[i]]
             ELSE Append(df, ToRow(cols, d))

\* mask.any() of upsert_row: some row of a non-empty df carries the key
UpsertHits(df, data, t) ==
    LET key == IF UpsertNeedsKey(data) THEN GenKey(t) ELSE data[pk]
    IN  \E i \in 1..Len(df) : KeyMatches(df[i], key)

RECURSIVE KeepOthers(_, _)
KeepOthers(df, key) ==
    IF df = <<>> THEN <<>>
    ELSE IF KeyMatches(Head(df), key)
         THEN KeepOthers(Tail(df), key)
         ELSE <<Head(df)>> \o KeepOthers(Tail(df), key)

\* delete_row: df[df[pk].astype(str) != str(pk_value)]
delete_row(df, pk_value) == KeepOthers(df, pk_value)

-----------------------------------------------------------------------------
(* Page handlers.  A handler is the part of a page that runs when its      *)
(* button is pressed, with the tables the same script run has just         *)
(* fetched.  Columns no handler reads (rut, birth_date, phone, email,      *)
(* specialty, duration_minutes, notes, created_at) carry no cell here.     *)

PatientCols == {"id", "full_name"}
ProfessionalCols == {"id", "full_name"}
ServiceCols == {"id", "name", "price"}
AppointmentCols == {"id", "patient_id", "professional_id", "service_id", "date",
                    "start_time", "end_time", "status", "price"}

\* the placeholder option of the select boxes
Dash == <<8212>>

\* statuses offered by "Nuevo estado"
Statuses == {"programada", "atendida", "ausente", "cancelada"}

\* str(day) for the d-th day of January 2024: ISO format, "2024-01-dd"
DateStr(d) == <<50, 48, 50, 52, 45, 48, 49, 45>> \o TwoDigits(d)

\* df[df[col] == v].iloc[0]: the first row whose column col holds v
FirstWhere(df, col, v) ==
    df[CHOOSE i \in 1..Len(df) :
          /\ df[i][col] = v
          /\ \A j \in 1..(i - 1) : df[j][col] # v]

\* df[col].tolist(), as the set of options of a select box
Options(df, col) == {df[i][col] : i \in 1..Len(df)}

\* page_pacientes, button "Guardar": the table, clock and message it leaves
PatientSaved(name, pats, t) ==
    IF Strip(name) = <<>>
    THEN [table |-> pats, now |-> t, msg |-> "El nombre es obligatorio."]
    ELSE [table |-> upsert_row(pats, PatientCols, [full_name |-> Strip(name)], t),
          now |-> t + 1,
          msg |-> "Paciente guardado."]

SavePatient(name) ==
    LET out == PatientSaved(name, patients, now)
    IN  /\ patients' = out.table /\ now' = out.now /\ msg' = out.msg
        /\ UNCHANGED <<professionals, services, appointments>>

\* page_config, button "Guardar profesional"
ProfessionalSaved(pname, pros, t) ==
    IF Strip(pname) # <<>>
    THEN [table |-> upsert_row(pros, ProfessionalCols, [full_name |-> Strip(pname)], t),
          now |-> t + 1,
          msg |-> "Profesional guardado."]
    ELSE [table |-> pros, now |-> t, msg |-> "El nombre es obligatorio."]

SaveProfessional(pname) ==
    LET out == ProfessionalSaved(pname, professionals, now)
    IN  /\ professionals' = out.table /\ now' = out.now /\ msg' = out.msg
        /\ UNCHANGED <<patients, services, appointments>>

\* page_config, button "Guardar servicio"
ServiceSaved(sname, price, srvs, t) ==
    IF Strip(sname) # <<>>
    THEN [table |-> upsert_row(srvs, ServiceCols,
                               [name |-> Strip(sname), price |-> price], t),
          now |-> t + 1,
          msg |-> "Servicio guardado."]
    ELSE [table |-> srvs, now |-> t, msg |-> "El nombre del servicio es obligatorio."]

SaveService(sname, price) ==
    LET out == ServiceSaved(sname, price, services, now)
    IN  /\ services' = out.table /\ now' = out.now /\ msg' = out.msg
        /\ UNCHANGED <<patients, professionals, appointments>>

\* the select boxes of the booking form offer the placeholder and the names
\* in the fetched tables
SelectionsOffered(f, pats, pros, srvs) ==
    /\ f.psel \in {Dash} \cup Options(pats, "full_name")
    /\ f.prosel \in {Dash} \cup Options(pros, "full_name")
    /\ f.ssel \in {Dash} \cup Options(srvs, "name")

\* "Hora inicio" offers the generated slots, or 09:00 when there are none
SlotOptions(block, start_day, end_day) ==
    LET slots == generate_slots(block, start_day, end_day)
    IN  IF slots = <<>> THEN {FmtHM(DefaultStart)}
        ELSE {slots[i] : i \in 1..Len(slots)}

\* start_t = slot + ":00"
StartT(f) == f.slot \o <<58, 48, 48>>

\* end_dt = combine(day, time(hh, mm)) + timedelta(minutes=dur); "%H:%M:%S"
EndT(f) == FmtHMS(ParseHM(f.slot) + f.dur)

\* the same day rows of another date too: the date filter left out
SameDayAnyDate(apps, prid, day) ==
    LET key == Str(prid)
    IN  {i \in 1..Len(apps) : Str(apps[i]["professional_id"]) = key}

\* same_day: indexes of the fetched rows of this professional on this date
SameDay(apps, prid, day) ==
    LET key == Str(prid)
        day_str == DateStr(day)
    IN  {i \in 1..Len(apps) :
            /\ Str(apps[i]["professional_id"]) = key
            /\ apps[i]["date"] = day_str}

\* the loop over same_day: some row with both times set overlaps [start_t, end_t)
Conflict(apps, prid, day, start_t, end_t) ==
    \E i \in SameDay(apps, prid, day) :
        /\ apps[i]["start_time"] # <<>> /\ apps[i]["end_time"] # <<>>
        /\ overlaps(start_t, end_t, apps[i]["start_time"], apps[i]["end_time"])

\* the price snapshot taken from the last row of that name
PriceOfLast(srvs, ssel) ==
    srvs[CHOOSE i \in 1..Len(srvs) :
            /\ srvs[i]["name"] = ssel
            /\ \A j \in (i + 1)..Len(srvs) : srvs[j]["name"] # ssel]["price"]

\* price = float(sr.get("price", 0)), sr the first services row of that name
PriceOf(srvs, ssel) == FirstWhere(srvs, "name", ssel)["price"]

\* the dict page_agenda passes to insert_row
NewAppointment(f, pats, pros, srvs) ==
    [patient_id |-> FirstWhere(pats, "full_name", f.psel)["id"],
     professional_id |-> FirstWhere(pros, "full_name", f.prosel)["id"],
     service_id |-> FirstWhere(srvs, "name", f.ssel)["id"],
     date |-> DateStr(f.day),
     start_time |-> StartT(f),
     end_time |-> EndT(f),
     status |-> "programada",
     price |-> PriceOf(srvs, f.ssel)]

\* the form is incomplete: the placeholder is in (psel, prosel, ssel)
Incomplete(f) == Dash \in {f.psel, f.prosel, f.ssel}

\* the conflict flag never set: every complete booking is inserted
RefusedNever(f, pros, apps) == FALSE

\* the booking is refused for a conflict found in the fetched appointments
Refused(f, pros, apps) ==
    Conflict(apps, FirstWhere(pros, "full_name", f.prosel)["id"], f.day,
             StartT(f), EndT(f))

\* page_agenda, button "Crear cita": the appointments table, clock and message
\* it leaves, from the tables the script run fetched
Booked(f, pats, pros, srvs, apps, t) ==
    IF Incomplete(f)
    THEN [table |-> apps, now |-> t,
          msg |-> "Completa paciente, profesional y servicio."]
    ELSE IF Refused(f, pros, apps)
         THEN [table |-> apps, now |-> t,
               msg |-> "Conflicto de horario con otra cita del mismo profesional."]
         ELSE [table |-> insert_row(apps, AppointmentCols,
                                    NewAppointment(f, pats, pros, srvs), t),
               now |-> t + 1,
               msg |-> "Cita creada."]

Book(f) ==
    /\ SelectionsOffered(f, patients, professionals, services)
    /\ LET out == Booked(f, patients, professionals, services, appointments, now)
       IN  /\ appointments' = out.table /\ now' = out.now /\ msg' = out.msg
    /\ UNCHANGED <<patients, professionals, services>>

\* page_citas, button "Actualizar estado": cid is one of the listed ids
UpdateStatus(cid, new_status) ==
    /\ appointments # <<>>
    /\ \E i \in 1..Len(appointments) : cid = Str(appointments[i]["id"])
    /\ appointments' = upsert_row(appointments, AppointmentCols,
                                  [id |-> cid, status |-> new_status], now)
    /\ msg' = "Estado actualizado."
    /\ UNCHANGED <<patients, professionals, services, now>>

-----------------------------------------------------------------------------
(* One session on the agenda of a clinic whose data directory already      *)
(* holds a patient, two professionals and a service.  The handlers of one  *)
(* session run one after another, each at a later millisecond than the     *)
(* last, so every key insert_row generates here is new.                    *)

MaxApps == 2         \* appointments the table may grow to

NameA == <<65>>
NameP == <<80>>
NameQ == <<81>>
NameS == <<83>>
NameT == <<84>>

\* professional and day of the month booked: one professional on two
\* days, and another professional on the first of them
AgendaBookings == {<<NameP, 1>>, <<NameP, 2>>, <<NameQ, 1>>}

\* durations tried, in blocks
DurBlocks == {1, 2}

\* a late workday, so that the longer durations run past midnight
AgendaStart == FmtHM(22 * 60 + 30)
AgendaEnd == FmtHM(23 * 60)

AgendaForm(psel, prosel, ssel, day, slot, k) ==
    [psel |-> psel, prosel |-> prosel, ssel |-> ssel, day |-> day,
     block |-> 30, start_day |-> AgendaStart, end_day |-> AgendaEnd,
     slot |-> slot, dur |-> 30 * k]

AgendaSlots == SlotOptions(30, AgendaStart, AgendaEnd)

\* complete forms, and one form for each selection left at the placeholder
AgendaForms ==
    {AgendaForm(NameA, who[1], NameS, who[2], slot, k) :
        who \in AgendaBookings, slot \in AgendaSlots, k \in DurBlocks}
    \cup {AgendaForm(Dash, NameP, NameS, 1, AgendaStart, 1),
          AgendaForm(NameA, Dash, NameS, 1, AgendaStart, 1),
          AgendaForm(NameA, NameP, Dash, 1, AgendaStart, 1)}

Init ==
    /\ patients = <<[id |-> 1, full_name |-> NameA]>>
    /\ professionals = <<[id |-> 2, full_name |-> NameP],
                         [id |-> 3, full_name |-> NameQ]>>
    /\ services = <<[id |-> 4, name |-> NameS, price |-> 1000]>>
    /\ appointments = <<>>
    /\ now = 5
    /\ msg = ""
    /\ sess = <<>>
    /\ tbl = <<>> /\ call = [op |-> "none", data |-> <<>>, hit |-> FALSE]
    /\ args = <<>> /\ ret = <<>>

AgendaBook ==
    \E f \in AgendaForms :
        /\ IF Len(appointments) < MaxApps \/ Incomplete(f) THEN TRUE
           ELSE Refused(f, professionals, appointments)
        /\ Book(f)
        /\ UNCHANGED <<sess, tbl, call, args, ret>>

AgendaUpdateStatus ==
    \E i \in 1..Len(appointments), new_status \in {"cancelada"} :
        /\ UpdateStatus(Str(appointments[i]["id"]), new_status)
        /\ UNCHANGED <<sess, tbl, call, args, ret>>

Next == AgendaBook \/ AgendaUpdateStatus

Spec == Init /\ [][Next]_vars

-----------------------------------------------------------------------------
(* One session on every page, starting from an empty data directory *)

MaxWrites == 5       \* rows the session may write in all

ClinicForm(psel, prosel, ssel, slot) ==
    [psel |-> psel, prosel |-> prosel, ssel |-> ssel, day |-> 1,
     block |-> 30, start_day |-> FmtHM(DefaultStart), end_day |-> FmtHM(DefaultStart + 30),
     slot |-> slot, dur |-> 30]

ClinicForms ==
    {ClinicForm(psel, prosel, ssel, slot) :
        psel \in {Dash, NameA}, prosel \in {Dash, NameP}, ssel \in {Dash, NameS, NameT},
        slot \in SlotOptions(30, FmtHM(DefaultStart), FmtHM(DefaultStart + 30))}

InitClinic ==
    /\ patients = <<>> /\ professionals = <<>> /\ services = <<>>
    /\ appointments = <<>>
    /\ now = 1
    /\ msg = ""
    /\ sess = <<>>
    /\ tbl = <<>> /\ call = [op |-> "none", data |-> <<>>, hit |-> FALSE]
    /\ args = <<>> /\ ret = <<>>

ClinicSavePatient ==
    \E name \in {<<32>>, <<65, 32>>} :
        /\ now <= MaxWrites
        /\ SavePatient(name)
        /\ UNCHANGED <<sess, tbl, call, args, ret>>

ClinicSaveProfessional ==
    \E pname \in {<<>>, NameP} :
        /\ now <= MaxWrites
        /\ SaveProfessional(pname)
        /\ UNCHANGED <<sess, tbl, call, args, ret>>

ClinicSaveService ==
    \E sname \in {<<>>, NameS, NameT}, price \in {1000, 2000} :
        /\ now <= MaxWrites
        /\ SaveService(sname, price)
        /\ UNCHANGED <<sess, tbl, call, args, ret>>

ClinicBook ==
    \E f \in ClinicForms :
        /\ now <= MaxWrites
        /\ Book(f)
        /\ UNCHANGED <<sess, tbl, call, args, ret>>

ClinicUpdateStatus ==
    \E i \in 1..Len(appointments), new_status \in {"atendida", "cancelada"} :
        /\ UpdateStatus(Str(appointments[i]["id"]), new_status)
        /\ UNCHANGED <<sess, tbl, call, args, ret>>

NextClinic ==
    \/ ClinicSavePatient
    \/ ClinicSaveProfessional
    \/ ClinicSaveService
    \/ ClinicBook
    \/ ClinicUpdateStatus

SpecClinic == InitClinic /\ [][NextClinic]_vars

-----------------------------------------------------------------------------
(* Claims about booking *)

\* the stored intervals of two rows overlap as half-open intervals of times
RowsOverlap(r1, r2) ==
    /\ TimeOf(r1["start_time"]) < TimeOf(r2["end_time"])
    /\ TimeOf(r2["start_time"]) < TimeOf(r1["end_time"])

SameProfessionalAndDate(r1, r2) ==
    /\ r1["professional_id"] = r2["professional_id"]
    /\ r1["date"] = r2["date"]

ClashingIn(apps, f) ==
    LET P == FirstWhere(professionals, "full_name", f.prosel)["id"]
        D == DateStr(f.day)
        from == TimeOf(StartT(f))
        to == TimeOf(EndT(f))
    IN  {i \in 1..Len(apps) :
            /\ apps[i]["professional_id"] = P
            /\ apps[i]["date"] = D
            /\ from < TimeOf(apps[i]["end_time"])
            /\ TimeOf(apps[i]["start_time"]) < to}

Clashing(f) == ClashingIn(appointments, f)

C10_StartBeforeEnd ==
    \A i \in 1..Len(appointments) :
        StrLT(appointments[i]["start_time"], appointments[i]["end_time"])

-----------------------------------------------------------------------------
(* Claims about the forms of all pages, under SpecClinic *)

ValidationErrors ==
    {"El nombre es obligatorio.",
     "El nombre del servicio es obligatorio.",
     "Completa paciente, profesional y servicio.",
     "Conflicto de horario con otra cita del mismo profesional."}

\* every submission that fails validation (an empty name, a selection left at
\* the placeholder, a scheduling conflict) leaves its table as it is and
\* reports an error
FailingSubmissionsRefused ==
    /\ \A name \in {<<>>, <<32>>} :
          /\ PatientSaved(name, patients, now).table = patients
          /\ PatientSaved(name, patients, now).msg \in ValidationErrors
          /\ ProfessionalSaved(name, professionals, now).table = professionals
          /\ ProfessionalSaved(name, professionals, now).msg \in ValidationErrors
          /\ \A price \in {1000, 2000} :
                /\ ServiceSaved(name, price, services, now).table = services
                /\ ServiceSaved(name, price, services, now).msg \in ValidationErrors
    /\ \A f \in ClinicForms :
          (/\ SelectionsOffered(f, patients, professionals, services)
           /\ IF Incomplete(f) THEN TRUE ELSE Clashing(f) # {}) =>
              LET out == Booked(f, patients, professionals, services, appointments, now)
              IN  out.table = appointments /\ out.msg \in ValidationErrors

\* C9: a form submission that fails validation performs no write: the four
\* tables are as they were before it.
C9_FailedValidationWritesNothing ==
    /\ []FailingSubmissionsRefused
    /\ [][msg' \in ValidationErrors =>
            UNCHANGED <<patients, professionals, services, appointments>>]_vars

\* C9 witness: a booking was just refused for a conflict, with rows in all
\* four tables
C9_Witness ==
    /\ msg = "Conflicto de horario con otra cita del mismo profesional."
    /\ patients # <<>> /\ professionals # <<>> /\ services # <<>>
    /\ appointments # <<>>

\* every booking the page would accept stores the price of the service it
\* resolved: the services row its service_id names, which has the selected name
AcceptedBookingsSnapshotPrice ==
    \A f \in ClinicForms :
        (/\ SelectionsOffered(f, patients, professionals, services)
         /\ ~Incomplete(f)
         /\ ~Refused(f, professionals, appointments)) =>
            LET out == Booked(f, patients, professionals, services, appointments, now)
                new == out.table[Len(out.table)]
            IN  /\ Len(out.table) = Len(appointments) + 1
                /\ \E j \in 1..Len(services) :
                      /\ services[j]["id"] = new["service_id"]
                      /\ services[j]["name"] = f.ssel
                      /\ services[j]["price"] = new["price"]

\* C5: the price stored on a new appointment is the price of the selected
\* service at the moment of booking, and no later step (service creation,
\* booking, status update) changes the price of an appointment already created.
C5_PriceSnapshot ==
    /\ []AcceptedBookingsSnapshotPrice
    /\ [][\A i \in 1..Len(appointments) :
             /\ i <= Len(appointments')
             /\ appointments'[i]["price"] = appointments[i]["price"]]_vars

\* C5 witness: an appointment with its status updated keeps a price that
\* differs from the price of a later service of the same name
C5_Witness ==
    \E i \in 1..Len(appointments), j, k \in 1..Len(services) :
        /\ appointments[i]["status"] = "cancelada"
        /\ services[j]["id"] = appointments[i]["service_id"]
        /\ services[j]["price"] = appointments[i]["price"]
        /\ services[k]["name"] = services[j]["name"]
        /\ services[k]["id"] > appointments[i]["id"]
        /\ services[k]["price"] # appointments[i]["price"]

-----------------------------------------------------------------------------
(* Two sessions booking at once.  Each session's script run is a thread of *)
(* its own: it fetches the tables, validates the form against what it      *)
(* fetched, and insert_row fetches the file again before it writes it.     *)

Sessions == {1, 2}

ConcForms ==
    {AgendaForm(NameA, NameP, NameS, 1, slot, k) :
        slot \in AgendaSlots, k \in DurBlocks}
    \cup {AgendaForm(NameA, Dash, NameS, 1, AgendaStart, 1)}

NoForm == AgendaForm(Dash, Dash, Dash, 1, AgendaStart, 1)

IdleSession == [pc |-> "idle", form |-> NoForm, apps |-> <<>>, df |-> <<>>, msg |-> ""]

InitConc ==
    /\ patients = <<[id |-> 1, full_name |-> NameA]>>
    /\ professionals = <<[id |-> 2, full_name |-> NameP],
                         [id |-> 3, full_name |-> NameQ]>>
    /\ services = <<[id |-> 4, name |-> NameS, price |-> 1000]>>
    /\ appointments = <<>>
    /\ now = 5
    /\ msg = ""
    /\ sess = [s \in Sessions |-> IdleSession]
    /\ tbl = <<>> /\ call = [op |-> "none", data |-> <<>>, hit |-> FALSE]
    /\ args = <<>> /\ ret = <<>>

\* the table the validation loop would read were it to fetch again
CurrentApps(s) == appointments

\* apps of page_agenda: the appointments the script run fetched at its start
FetchedApps(s) == sess[s].apps

\* "Crear cita" pressed in session s: the script reruns and fetches the tables
Rerun(s) ==
    \E f \in ConcForms :
        /\ sess[s].pc = "idle"
        /\ Len(appointments) < MaxApps
        /\ SelectionsOffered(f, patients, professionals, services)
        /\ sess' = [sess EXCEPT ![s] = [pc |-> "fetched", form |-> f,
                                        apps |-> appointments, df |-> <<>>,
                                        msg |-> ""]]
        /\ UNCHANGED <<patients, professionals, services, appointments, now, msg,
                       tbl, call, args, ret>>

\* the button block up to the call of insert_row
Validate(s) ==
    /\ sess[s].pc = "fetched"
    /\ sess' = [sess EXCEPT ![s] =
          IF Incomplete(sess[s].form)
          THEN [IdleSession EXCEPT
                  !.msg = "Completa paciente, profesional y servicio."]
          ELSE IF Refused(sess[s].form, professionals, FetchedApps(s))
               THEN [IdleSession EXCEPT
                       !.msg = "Conflicto de horario con otra cita del mismo profesional."]
               ELSE [sess[s] EXCEPT !.pc = "insert"]]
    /\ UNCHANGED <<patients, professionals, services, appointments, now, msg,
                   tbl, call, args, ret>>

\* insert_row: df = fetch_table(table)
InsertFetch(s) ==
    /\ sess[s].pc = "insert"
    /\ sess' = [sess EXCEPT ![s].pc = "write", ![s].df = appointments]
    /\ UNCHANGED <<patients, professionals, services, appointments, now, msg,
                   tbl, call, args, ret>>

\* insert_row: the key, pd.concat and df.to_csv; then st.success
InsertWrite(s) ==
    /\ sess[s].pc = "write"
    /\ appointments' =
          insert_row(sess[s].df, AppointmentCols,
                     NewAppointment(sess[s].form, patients, professionals, services),
                     now)
    /\ now' = now + 1
    /\ sess' = [sess EXCEPT ![s] = [IdleSession EXCEPT !.msg = "Cita creada."]]
    /\ UNCHANGED <<patients, professionals, services, msg, tbl, call, args, ret>>

NextConc ==
    \E s \in Sessions : Rerun(s) \/ Validate(s) \/ InsertFetch(s) \/ InsertWrite(s)

SpecConc == InitConc /\ [][NextConc]_vars

\* C4: with two sessions the overlap check does not prevent a double booking.
\* A session goes on to insert exactly when its form is complete and no row
\* it fetched at the start of its run clashes, whatever the table holds by
\* then, and its write leaves the table it fetched in insert_row plus its row;
\* so two sessions that both fetch before either inserts both write.
C4_ValidationReadsFetchedRows ==
    [][\A s \in Sessions :
          /\ (sess[s].pc = "fetched" /\ sess'[s].pc # "fetched") =>
                ((sess'[s].pc = "insert") <=>
                    (/\ ~Incomplete(sess[s].form)
                     /\ ClashingIn(sess[s].apps, sess[s].form) = {}))
          /\ (sess[s].pc = "write" /\ sess'[s].pc # "write") =>
                /\ Len(appointments') = Len(sess[s].df) + 1
                /\ appointments'[Len(appointments')]["start_time"] = StartT(sess[s].form)
                /\ appointments'[Len(appointments')]["end_time"] = EndT(sess[s].form)]_vars

\* C4 witness: both sessions were told "Cita creada." and the table holds two
\* appointments of one professional and date whose intervals overlap
C4_Witness ==
    /\ \A s \in Sessions : sess[s].msg = "Cita creada."
    /\ \E i, j \in 1..Len(appointments) :
          /\ i < j
          /\ SameProfessionalAndDate(appointments[i], appointments[j])
          /\ RowsOverlap(appointments[i], appointments[j])

-----------------------------------------------------------------------------
(* The adapter driven directly: one table with the columns id and a *)

MaxRows == 2         \* rows a table may grow to

StoreCols == {"id", "a"}

\* keys a caller supplies: empty, blank, or the digits of a clock value
StoreKeys == {<<>>, <<32>>} \cup {Str(k) : k \in 1..MaxClock}

\* the data dicts a caller passes: with or without a key, with or without a
StoreData ==
    UNION { { vals, (pk :> key) @@ vals } :
              vals \in UNION { [D -> {0, 1}] : D \in SUBSET {"a"} },
              key \in StoreKeys }

NoCall == [op |-> "none", data |-> <<>>, hit |-> FALSE]

Tick ==
    /\ now < MaxClock
    /\ now' = now + 1
    /\ UNCHANGED <<patients, professionals, services, appointments, msg,
                   sess, tbl, call, args, ret>>

StoreUpsert ==
    \E data \in StoreData :
        /\ Len(tbl) < MaxRows \/ UpsertHits(tbl, data, now)
        /\ tbl' = upsert_row(tbl, StoreCols, data, now)
        /\ call' = [op |-> "upsert", data |-> data, hit |-> UpsertHits(tbl, data, now)]
        /\ UNCHANGED <<patients, professionals, services, appointments, now, msg,
                       sess, args, ret>>

StoreInsert ==
    \E data \in StoreData :
        /\ Len(tbl) < MaxRows
        /\ pk \in DOMAIN data => data[pk] # <<32>>
        /\ tbl' = insert_row(tbl, StoreCols, data, now)
        /\ call' = [op |-> "insert", data |-> data, hit |-> FALSE]
        /\ UNCHANGED <<patients, professionals, services, appointments, now, msg,
                       sess, args, ret>>

StoreDelete ==
    \E k \in 1..MaxClock :
        /\ tbl' = delete_row(tbl, Str(k))
        /\ call' = [op |-> "delete", data |-> (pk :> Str(k)),
                    hit |-> \E i \in 1..Len(tbl) : KeyMatches(tbl[i], Str(k))]
        /\ UNCHANGED <<patients, professionals, services, appointments, now, msg,
                       sess, args, ret>>

InitStore ==
    /\ patients = <<>> /\ professionals = <<>> /\ services = <<>>
    /\ appointments = <<>>
    /\ now = 1
    /\ msg = ""
    /\ sess = <<>>
    /\ tbl = <<>> /\ call = NoCall
    /\ args = <<>> /\ ret = <<>>

NextStore == StoreUpsert \/ StoreInsert \/ StoreDelete \/ Tick

SpecStore == InitStore /\ [][NextStore]_vars

-----------------------------------------------------------------------------
(* Claims about upsert_row, under SpecStore *)

\* the step just taken is a call of upsert_row on tbl
UpsertStep == call'.op = "upsert" /\ now' = now

\* C6: upsert_row called with an empty or missing key inserts a new row with a
\* freshly generated key: the table gains exactly one row, the new key differs
\* from the key of every row already there, and every row already there is
\* unchanged.
C6_UpsertNoKeyInsertsFresh ==
    [][(UpsertStep /\ UpsertNeedsKey(call'.data)) =>
         /\ Len(tbl') = Len(tbl) + 1
         /\ \A i \in 1..Len(tbl) : tbl'[i] = tbl[i]
         /\ \A i \in 1..Len(tbl) : tbl'[Len(tbl')][pk] # tbl[i][pk]]_vars

\* C7: upsert_row called with a key that matches an existing row keeps the
\* number of rows, writes the supplied columns into the matched rows, keeps
\* the columns not supplied in them, and leaves every other row unchanged.
C7_UpsertOverwritesSupplied ==
    [][(/\ UpsertStep
        /\ ~UpsertNeedsKey(call'.data)
        /\ \E i \in 1..Len(tbl) : KeyMatches(tbl[i], call'.data[pk])) =>
         /\ Len(tbl') = Len(tbl)
         /\ \A i \in 1..Len(tbl) :
              IF KeyMatches(tbl[i], call'.data[pk])
              THEN /\ tbl'[i][pk] = tbl[i][pk]
                   /\ \A c \in (DOMAIN call'.data) \ {pk} : tbl'[i][c] = call'.data[c]
                   /\ \A c \in StoreCols \ DOMAIN call'.data : tbl'[i][c] = tbl[i][c]
              ELSE tbl'[i] = tbl[i]]_vars

\* C7 witness: an upsert with a key and no value for a has hit a row whose a was
\* set, in a table that also holds a row with another key
C7_Witness ==
    /\ call.op = "upsert" /\ call.hit
    /\ DOMAIN call.data = {pk}
    /\ Len(tbl) = 2
    /\ \E i, j \in 1..Len(tbl) :
          /\ KeyMatches(tbl[i], call.data[pk]) /\ tbl[i]["a"] # NaN
          /\ ~KeyMatches(tbl[j], call.data[pk])

-----------------------------------------------------------------------------
(* The adapter called without keys: every key of the table is one that     *)
(* insert_row or upsert_row generated from the clock.  The clock is the    *)
(* wall clock in milliseconds, so two calls may read the same value.       *)

\* the data dicts of a caller that supplies no key
KeylessData == UNION { [D -> {0, 1}] : D \in SUBSET {"a"} }

\* the rows of df that df[pk].astype(str) == str(key) masks
Masked(df, key) == {i \in 1..Len(df) : KeyMatches(df[i], key)}

KeysInsert ==
    \E data \in KeylessData :
        /\ Len(tbl) < MaxRows
        /\ tbl' = insert_row(tbl, StoreCols, data, now)
        /\ call' = [op |-> "insert", data |-> data, hit |-> FALSE]
        /\ UNCHANGED <<patients, professionals, services, appointments, now, msg,
                       sess, args, ret>>

KeysUpsert ==
    \E data \in KeylessData :
        /\ Len(tbl) < MaxRows \/ UpsertHits(tbl, data, now)
        /\ tbl' = upsert_row(tbl, StoreCols, data, now)
        /\ call' = [op |-> "upsert", data |-> data, hit |-> UpsertHits(tbl, data, now)]
        /\ UNCHANGED <<patients, professionals, services, appointments, now, msg,
                       sess, args, ret>>

KeysDelete ==
    \E k \in 1..MaxClock :
        /\ tbl' = delete_row(tbl, Str(k))
        /\ call' = [op |-> "delete", data |-> (pk :> Str(k)),
                    hit |-> Masked(tbl, Str(k)) # {}]
        /\ UNCHANGED <<patients, professionals, services, appointments, now, msg,
                       sess, args, ret>>

\* page_citas: cid is chosen among the ids of the rows, then
\* upsert_row("appointments", {"id": cid, "status": new_status});
\* the column a stands for status
KeysStatusUpdate ==
    \E i \in 1..Len(tbl), new_status \in {0, 1} :
        LET data == (pk :> Str(tbl[i][pk])) @@ ("a" :> new_status)
        IN  /\ tbl' = upsert_row(tbl, StoreCols, data, now)
            /\ call' = [op |-> "status", data |-> data, hit |-> TRUE]
            /\ UNCHANGED <<patients, professionals, services, appointments, now,
                           msg, sess, args, ret>>

NextKeys == KeysInsert \/ KeysUpsert \/ KeysDelete \/ KeysStatusUpdate \/ Tick

SpecKeys == InitStore /\ [][NextKeys]_vars

\* the keys of the table are pairwise distinct
KeysDistinct ==
    \A i, j \in 1..Len(tbl) : i # j => tbl[i][pk] # tbl[j][pk]

\* the step just taken is the status update of page_citas
StatusUpdateStep == call'.op = "status" /\ now' = now

\* C11: after any sequence of insert_row and upsert_row calls that supply no
\* key and of delete_row calls, the keys of the table are pairwise distinct,
\* and a status update addressed to one id (upsert of {id, status}) writes
\* exactly one row and leaves every other row unchanged.
C11_KeysStayDistinct ==
    /\ []KeysDistinct
    /\ [][StatusUpdateStep =>
            /\ Cardinality(Masked(tbl, call'.data[pk])) = 1
            /\ Cardinality({i \in 1..Len(tbl) : tbl'[i] # tbl[i]}) <= 1]_vars

-----------------------------------------------------------------------------
(* The domain helpers called on their own *)

\* times of day overlaps is called on, as "%H:%M:%S" strings
OvTimes == {FmtHMS(k * OvStep) : k \in 0..MaxOvK}

\* workday starts and ends generate_slots is called on, as "%H:%M" strings
SlotStarts == {FmtHM(DefaultStart + 15 * k) : k \in 0..2}
SlotEnds == {FmtHM(DefaultStart + 15 * k) : k \in 0..MaxSlotK} \cup {FmtHM(DefaultEnd)}

InitOverlaps ==
    /\ patients = <<>> /\ professionals = <<>> /\ services = <<>>
    /\ appointments = <<>>
    /\ now = 1
    /\ msg = ""
    /\ sess = <<>>
    /\ tbl = <<>> /\ call = NoCall
    /\ args \in [a_start : OvTimes, a_end : OvTimes, b_start : OvTimes, b_end : OvTimes]
    /\ ret = <<>>

CallOverlaps ==
    /\ ret = <<>>
    /\ ret' = <<overlaps(args.a_start, args.a_end, args.b_start, args.b_end)>>
    /\ UNCHANGED <<patients, professionals, services, appointments, now, msg,
                   sess, tbl, call, args>>

NextOverlaps == CallOverlaps

SpecOverlaps == InitOverlaps /\ [][NextOverlaps]_vars

InitSlots ==
    /\ patients = <<>> /\ professionals = <<>> /\ services = <<>>
    /\ appointments = <<>>
    /\ now = 1
    /\ msg = ""
    /\ sess = <<>>
    /\ tbl = <<>> /\ call = NoCall
    /\ args \in [block : Blocks, start : SlotStarts, end : SlotEnds]
    /\ ret = <<>>

CallSlots ==
    /\ ret = <<>>
    /\ ret' = <<generate_slots(args.block, args.start, args.end)>>
    /\ UNCHANGED <<patients, professionals, services, appointments, now, msg,
                   sess, tbl, call, args>>

NextSlots == CallSlots

SpecSlots == InitSlots /\ [][NextSlots]_vars

-----------------------------------------------------------------------------
(* Claims about the domain helpers *)

\* C3: overlaps(a1,a2,b1,b2) is true iff a1 < b2 and b1 < a2 as times of day;
\* it is false for adjacent intervals (a2 = b1 or b2 = a1) and symmetric in the
\* two intervals.  Checked under SpecOverlaps.
C3_OverlapsIffStrictlyInterleaved ==
    ret # <<>> =>
        /\ ret[1] = (/\ TimeOf(args.a_start) < TimeOf(args.b_end)
                     /\ TimeOf(args.b_start) < TimeOf(args.a_end))
        /\ (args.a_end = args.b_start \/ args.b_end = args.a_start) => ~ret[1]
        /\ ret[1] = overlaps(args.b_start, args.b_end, args.a_start, args.a_end)

\* C3 witness: overlaps has returned false for two non-empty adjacent intervals
C3_Witness ==
    /\ ret # <<>> /\ ~ret[1]
    /\ args.a_end = args.b_start
    /\ TimeOf(args.a_start) < TimeOf(args.a_end)
    /\ TimeOf(args.b_start) < TimeOf(args.b_end)

\* C8 as stated: the slots start at start, are block minutes apart and the last
\* one is end.  Checked under SpecSlots.
C8_SlotsEndAtEnd ==
    ret # <<>> =>
        LET slots == ret[1]
        IN  /\ Len(slots) >= 1
            /\ slots[1] = args.start
            /\ slots[Len(slots)] = args.end
            /\ \A i \in 1..(Len(slots) - 1) :
                  TimeOf(slots[i + 1]) = TimeOf(slots[i]) + args.block

\* C8 amended: the slots are exactly the times start + k*block (k = 0, 1, ...)
\* that are not after end, in increasing order: none when start is after end,
\* and the last one is end only when end - start is a multiple of block;
\* 09:00 to 10:00 in blocks of 30 gives 09:00, 09:30, 10:00.
C8_SlotsUpToEnd ==
    ret # <<>> =>
        LET slots == ret[1]
            st == TimeOf(args.start)
            en == TimeOf(args.end)
            n == IF st > en THEN 0 ELSE (en - st) \div args.block + 1
        IN  /\ Len(slots) = n
            /\ \A i \in 1..n : slots[i] = FmtHM(st + (i - 1) * args.block)
            /\ \A i \in 1..(n - 1) : StrLT(slots[i], slots[i + 1])
            /\ n > 0 => /\ TimeOf(slots[n]) <= en
                        /\ TimeOf(slots[n]) + args.block > en
                        /\ (slots[n] = args.end) <=> ((en - st) % args.block = 0)
            /\ (args.block = 30 /\ st = 540 /\ en = 600) =>
                  slots = <<FmtHM(540), FmtHM(570), FmtHM(600)>>

\* C8 witness: generate_slots has returned several slots, the last before end
C8_Witness ==
    /\ ret # <<>>
    /\ Len(ret[1]) >= 2
    /\ ret[1][Len(ret[1])] # args.end

====
